---------------------------- MODULE Spec2Model ----------------------------
(***************************************************************************)
(* trend-sieve: collect -> enrich -> classify -> deduplicate -> notify.    *)
(*                                                                         *)
(* Optional values (Python's `X | None`) are sequences of length at most   *)
(* one: None is <<>> and a present value v is <<v>>.  Timestamps are the   *)
(* integer reading of the wall clock at the moment of the call.            *)
(***************************************************************************)
EXTENDS Integers, Sequences, FiniteSets, TLC

VARIABLES
    cfg,          \* the Settings value the process was started with
    store,        \* the rows of table trend_items, in insertion order
    clock,        \* the wall clock
    lastItems,    \* argument of the latest upsert_items call
    lastNew,      \* its return value
    lastNow,      \* the `now` it stamped
    storeBefore,  \* the table as that call found it
    callKind,     \* "none", "call", or "again" (same list as the call before)
    prevNew,      \* "again": what the call before returned
    prevBefore,   \* "again": the table as the call before found it
    pc,           \* where the pipeline stands
    github_repos, \* run(): what GitHubTrendingSource.fetch returned
    enrichments,  \* run(): what fetch_metadata_many returned, by repository name
    response,     \* the reply of the reasoning service to the latest filter call
    filtered,     \* the outcome of GeminiFilter.filter: [called, raised, result]
    github_items, \* run(): the converted Canonical Trend Items
    all_items,    \* run(): github_items + hn_items[:10]
    new_items,    \* run(): what goes to the notifier
    sent,         \* the latest SlackNotifier.send call: [items, posted, result]
    delivered,    \* keys of the items of every batch for which send returned True
    call,         \* the latest direct call of an adapter or helper: [fn, args, out]
    writers,      \* the upsert_items calls in progress, one per overlapping run
    overlapped,   \* whether two upsert_items calls were ever in progress together
    inflight,     \* the tasks handed to asyncio.gather and not yet settled
    settled       \* the reply each settled task met

storeVars == <<store, clock>>
auxVars   == <<call, writers, overlapped, inflight, settled>>
histVars  == <<lastItems, lastNew, lastNow, storeBefore, callKind, prevNew, prevBefore,
               auxVars>>
pipeVars  == <<pc, github_repos, enrichments, response, filtered, github_items>>
tailVars  == <<all_items, new_items, sent, delivered>>
vars      == <<cfg, store, clock, lastItems, lastNew, lastNow, storeBefore,
               callKind, prevNew, prevBefore,
               pc, github_repos, enrichments, response, filtered, github_items,
               all_items, new_items, sent, delivered,
               call, writers, overlapped, inflight, settled>>

(***************************************************************************)
(* Bounds of the model.                                                    *)
(***************************************************************************)
MaxClock == 1
MaxItems == 2
MaxRepos == 2
MaxResp  == 2

None == <<>>
Some(v) == <<v>>
Truthy(opt) == opt # None /\ opt[1] # ""

Range(s) == {s[i] : i \in 1..Len(s)}
SeqsUpTo(S, n) == UNION {[1..k -> S] : k \in 0..n}

(***************************************************************************)
(* models.py: TrendItem.  The fields kept are the key, one display field   *)
(* and the analysis fields; url, description, metadata, summary and        *)
(* matched_interests are carried through the pipeline exactly like title   *)
(* and are left out.                                                       *)
(***************************************************************************)
TrendItem(source, source_id, title, score, code, lic, oss) ==
    [source |-> source, source_id |-> source_id, title |-> title,
     relevance_score |-> score, code_example |-> code,
     license |-> lic, is_open_source |-> oss]

KeyOf(x) == <<x.source, x.source_id>>

(***************************************************************************)
(* config.py                                                               *)
(***************************************************************************)
\* Settings.relevance_threshold: default=6, ge=1, le=10
DefaultThreshold == 6

(***************************************************************************)
(* storage/supabase.py                                                     *)
(***************************************************************************)
\* SupabaseStorage.__init__: the client exists iff url and key are both truthy.
StorageClient(url, key) == Truthy(url) /\ Truthy(key)

\* a lookup that forgets the source column
SelectExistingByIdOnly(st, item) ==
    SelectSeq(st, LAMBDA r : r.source_id = item.source_id)

\* a lookup whose filter matches no row
SelectExistingNoMatch(st, item) == <<>>

\* .select("id, first_seen_at").eq("source", ..).eq("source_id", ..).execute()
SelectExisting(st, item) ==
    SelectSeq(st, LAMBDA r : r.source = item.source /\ r.source_id = item.source_id)

\* a `data` dictionary that stamps first_seen_at before the branch
RowDataRestamped(item, now) ==
    [source |-> item.source, source_id |-> item.source_id, title |-> item.title,
     relevance_score |-> item.relevance_score, code_example |-> item.code_example,
     license |-> item.license, is_open_source |-> item.is_open_source,
     last_seen_at |-> now, first_seen_at |-> now]

\* the `data` dictionary of one loop iteration
RowData(item, now) ==
    [source |-> item.source, source_id |-> item.source_id, title |-> item.title,
     relevance_score |-> item.relevance_score, code_example |-> item.code_example,
     license |-> item.license, is_open_source |-> item.is_open_source,
     last_seen_at |-> now]

\* an update branch that inserts as the other branch does
UpdateRowAsInsert(st, id, data) ==
    Append(st, data @@ [id |-> Len(st) + 1, first_seen_at |-> data.last_seen_at])

\* .update(data).eq("id", id).execute(): the columns of data are overwritten
UpdateRow(st, id, data) ==
    [i \in 1..Len(st) |->
        IF st[i].id = id
        THEN [f \in DOMAIN st[i] |-> IF f \in DOMAIN data THEN data[f] ELSE st[i][f]]
        ELSE st[i]]

\* an insert whose query is built and never executed
InsertRowNotExecuted(st, data, now) == st

\* data["first_seen_at"] = now; .insert(data).execute(): the table assigns the id
InsertRow(st, data, now) ==
    Append(st, data @@ [id |-> Len(st) + 1, first_seen_at |-> now])

RECURSIVE UpsertLoop(_, _, _, _)
UpsertLoop(st, items, now, novel) ==
    IF items = <<>>
    THEN [store |-> st, new_items |-> novel]
    ELSE LET item     == Head(items)
             existing == SelectExisting(st, item)
             data     == RowData(item, now)
         IN  IF existing # <<>>
             THEN UpsertLoop(UpdateRow(st, existing[1].id, data), Tail(items),
                             now, novel)
             ELSE UpsertLoop(InsertRow(st, data, now), Tail(items),
                             now, Append(novel, item))

\* SupabaseStorage.upsert_items
upsert_items(client, st, items, now) ==
    IF ~client \/ items = <<>>
    THEN [store |-> st, new_items |-> <<>>]
    ELSE UpsertLoop(st, items, now, <<>>)

(***************************************************************************)
(* models.py: Repository.  name and language are kept; url, description    *)
(* and the counters only reach the prompt and the metadata map.            *)
(***************************************************************************)
Repository(name, language) == [name |-> name, language |-> language]

\* An HTTP exchange: either httpx.RequestError is raised, or a response
\* arrives with a status code and a body.
Reply(exc, status, body) == [exc |-> exc, status |-> status, body |-> body]

(***************************************************************************)
(* sources/github.py                                                       *)
(***************************************************************************)
\* One <article class="Box-row"> of the trending page: the href of its
\* "h2 a" link (None when the link is missing), its language tag and the
\* text of its stargazers link.
Article(href, language, stars_text) ==
    [href |-> href, language |-> language, stars_text |-> stars_text]

\* href.strip("/") on the hrefs the model draws from
StripSlashes(str) ==
    CASE str = "/o/a" -> "o/a"
      [] str = "/o/b" -> "o/b"
      [] OTHER -> str

\* _parse_number: text.strip().replace(",", ""), then 0 for "" and int()
\* otherwise; int() raises ValueError on text that is not a plain integer.
_parse_number(text) ==
    CASE text = ""      -> [raised |-> FALSE, value |-> 0]
      [] text = "1,234" -> [raised |-> FALSE, value |-> 1234]
      [] text = "57"    -> [raised |-> FALSE, value |-> 57]
      [] OTHER          -> [raised |-> TRUE,  value |-> 0]

\* _parse_repository: [raised, repo] with repo None when there is no name link
_parse_repository(article) ==
    IF article.href = None
    THEN [raised |-> FALSE, repo |-> None]
    ELSE IF _parse_number(article.stars_text).raised
    THEN [raised |-> TRUE, repo |-> None]
    ELSE [raised |-> FALSE,
          repo |-> Some(Repository(StripSlashes(article.href[1]), article.language))]

RECURSIVE ParseArticles(_, _)
ParseArticles(articles, repositories) ==
    IF articles = <<>> THEN [raised |-> FALSE, result |-> repositories]
    ELSE LET p == _parse_repository(Head(articles))
         IN  IF p.raised THEN [raised |-> TRUE, result |-> <<>>]
             ELSE ParseArticles(Tail(articles),
                                IF p.repo # None THEN Append(repositories, p.repo[1])
                                ELSE repositories)

\* GitHubTrendingSource.fetch: the GET may raise, raise_for_status raises on
\* a status outside 2xx, and the page is parsed article by article.
GitHubFetch(reply) ==
    IF reply.exc \/ reply.status \notin 200..299
    THEN [raised |-> TRUE, result |-> <<>>]
    ELSE ParseArticles(reply.body, <<>>)

(***************************************************************************)
(* sources/hackernews.py                                                   *)
(***************************************************************************)
\* str(item["id"]) on the ids the model draws from
ToStr(n) ==
    CASE n = 1 -> "1"
      [] n = 2 -> "2"
      [] n = 3 -> "3"
      [] OTHER -> "0"

\* a story as the item endpoint returns it
Story(id, type, title) == [id |-> id, type |-> type, title |-> title]

\* the first n elements: seq[:n]
Take(seq, n) == SubSeq(seq, 1, IF Len(seq) < n THEN Len(seq) ELSE n)

\* HackerNewsSource._fetch_item: the JSON body of a 200 reply (None for the
\* JSON null), None on another status or on httpx.RequestError
_fetch_item(reply) ==
    IF ~reply.exc /\ reply.status = 200 THEN reply.body ELSE None

RECURSIVE HnResults(_, _)
HnResults(items, results) ==
    IF items = <<>> THEN results
    ELSE LET item == Head(items)
         IN  IF item = None \/ item[1].type # "story"
             THEN HnResults(Tail(items), results)
             ELSE HnResults(Tail(items),
                      Append(results,
                             TrendItem("hackernews", ToStr(item[1].id), item[1].title,
                                       None, None, None, FALSE)))

\* HackerNewsSource.fetch: the GET of topstories.json is outside any try, a
\* status other than 200 returns [], and details[i] is the reply to the
\* item request of the i-th story id.
HnFetch(top, details, limit) ==
    IF top.exc THEN [raised |-> TRUE, result |-> <<>>]
    ELSE IF top.status # 200 THEN [raised |-> FALSE, result |-> <<>>]
    ELSE LET story_ids == Take(top.body, limit)
             items == [i \in 1..Len(story_ids) |-> _fetch_item(details[i])]
         IN  [raised |-> FALSE, result |-> HnResults(items, <<>>)]

\* the replies the item endpoint may give for story id
DetailReplies(id) ==
    { Reply(TRUE, 0, None), Reply(FALSE, 200, Some(Story(id, "story", "T"))) }

(***************************************************************************)
(* notifiers/slack.py                                                      *)
(***************************************************************************)
\* SlackNotifier.is_configured
is_configured(webhook_url) == webhook_url # None

\* a guard that returns early only when both conditions hold
send_guard_and(webhook_url, items, reply) ==
    IF ~Truthy(webhook_url) /\ items = <<>>
    THEN [posted |-> FALSE, raised |-> FALSE, result |-> FALSE, status |-> 0]
    ELSE IF reply.exc
    THEN [posted |-> TRUE, raised |-> FALSE, result |-> FALSE, status |-> 0]
    ELSE [posted |-> TRUE, raised |-> FALSE, result |-> reply.status = 200,
          status |-> reply.status]

\* a POST outside any try: httpx.RequestError leaves send
send_uncaught(webhook_url, items, reply) ==
    IF ~Truthy(webhook_url) \/ items = <<>>
    THEN [posted |-> FALSE, raised |-> FALSE, result |-> FALSE, status |-> 0]
    ELSE IF reply.exc
    THEN [posted |-> TRUE, raised |-> TRUE, result |-> FALSE, status |-> 0]
    ELSE [posted |-> TRUE, raised |-> FALSE, result |-> reply.status = 200,
          status |-> reply.status]

\* SlackNotifier.send: posted tells whether client.post was called, reply is
\* what the POST met (httpx.RequestError or a status code), raised whether an
\* exception leaves send, status the status code received (0 when the POST
\* raised); the text built by _format_message is the payload and is not
\* read back.
send(webhook_url, items, reply) ==
    IF ~Truthy(webhook_url) \/ items = <<>>
    THEN [posted |-> FALSE, raised |-> FALSE, result |-> FALSE, status |-> 0]
    ELSE IF reply.exc
    THEN [posted |-> TRUE, raised |-> FALSE, result |-> FALSE, status |-> 0]
    ELSE [posted |-> TRUE, raised |-> FALSE, result |-> reply.status = 200,
          status |-> reply.status]

SlackReplies ==
    { Reply(TRUE, 0, "") }
    \cup { Reply(FALSE, code, "") : code \in {200, 201, 204, 302, 404, 500} }

WebhookUrls == { None, Some(""), Some("https://hooks.slack.test/T") }

(***************************************************************************)
(* enrichers/readme.py                                                     *)
(***************************************************************************)
OPEN_SOURCE_LICENSES ==
    {"mit", "apache-2.0", "gpl-2.0", "gpl-3.0", "lgpl-2.1", "lgpl-3.0",
     "bsd-2-clause", "bsd-3-clause", "mpl-2.0", "unlicense", "isc",
     "agpl-3.0", "cc0-1.0", "wtfpl", "zlib"}

\* str.lower() on the license ids the model draws from
Lower(str) ==
    CASE str = "MIT" -> "mit"
      [] str = "Mit" -> "mit"
      [] str = "Apache-2.0" -> "apache-2.0"
      [] str = "NOASSERTION" -> "noassertion"
      [] str = "Proprietary" -> "proprietary"
      [] OTHER -> str

\* _fetch_readme: the file names are tried in order; the first 200 wins, a
\* RequestError or another status moves on to the next name.
RECURSIVE _fetch_readme(_)
_fetch_readme(replies) ==
    IF replies = <<>> THEN None
    ELSE IF ~Head(replies).exc /\ Head(replies).status = 200
         THEN Some(Head(replies).body)
         ELSE _fetch_readme(Tail(replies))

\* _fetch_license: body is the spdx_id of the reply ("" when absent)
_fetch_license(reply) ==
    IF ~reply.exc /\ reply.status = 200
    THEN IF reply.body # "" THEN Some(Lower(reply.body)) ELSE None
    ELSE None

\* a membership test that forgets to fold the case
_is_open_source_case_sensitive(license_id) ==
    IF ~Truthy(license_id) THEN FALSE
    ELSE license_id[1] \in OPEN_SOURCE_LICENSES

\* ReadmeEnricher._is_open_source
_is_open_source(license_id) ==
    IF ~Truthy(license_id) THEN FALSE
    ELSE Lower(license_id[1]) \in OPEN_SOURCE_LICENSES

\* ReadmeEnricher.fetch_metadata
fetch_metadata(net) ==
    LET license_id == _fetch_license(net.license)
    IN  [readme |-> _fetch_readme(net.readme),
         license |-> license_id,
         is_open_source |-> _is_open_source(license_id)]

\* a map that leaves out the names for which nothing could be fetched
fetch_metadata_many_skip_failed(repo_names, nets) ==
    LET got == {i \in 1..Len(repo_names) :
                   \/ fetch_metadata(nets[i]).readme # None
                   \/ fetch_metadata(nets[i]).license # None}
    IN  [name \in {repo_names[i] : i \in got} |->
            LET last == CHOOSE i \in got :
                            /\ repo_names[i] = name
                            /\ \A j \in got : repo_names[j] = name => j <= i
            IN  fetch_metadata(nets[last])]

\* ReadmeEnricher.fetch_metadata_many: dict(zip(repo_names, results)); a
\* name listed twice keeps the result of its last position.
fetch_metadata_many(repo_names, nets) ==
    [name \in Range(repo_names) |->
        LET last == CHOOSE i \in 1..Len(repo_names) :
                        /\ repo_names[i] = name
                        /\ \A j \in (i + 1)..Len(repo_names) : repo_names[j] # name
        IN  fetch_metadata(nets[last])]

(***************************************************************************)
(* filters/gemini.py                                                       *)
(***************************************************************************)
\* _FilteredItem; quick_start is None or Some of a _QuickStartCode
FilteredItem(index, score, quick_start) ==
    [index |-> index, relevance_score |-> score, quick_start |-> quick_start]

QuickStartCode(language, code) == [language |-> language, code |-> code]

\* an index used as it comes, without the shift to 0-based
IndexOfUnshifted(item) == item.index

\* idx = item.index - 1
IndexOf(item) == item.index - 1

\* a gate that trusts the quick_start the service proposes
KeepsSnippetUngated(item, is_open_source) ==
    item.quick_start # None /\ item.quick_start[1].code # ""

\* item.quick_start and item.quick_start.code and is_open_source
KeepsSnippet(item, is_open_source) ==
    item.quick_start # None /\ item.quick_start[1].code # "" /\ is_open_source

\* language=item.quick_start.language or repo.language or "text"
SnippetLanguage(item, repo) ==
    IF item.quick_start[1].language # "" THEN item.quick_start[1].language
    ELSE IF Truthy(repo.language) THEN repo.language[1]
    ELSE "text"

\* licenses.get(repo.name)
DictGet(d, k) == IF k \in DOMAIN d THEN d[k] ELSE None

RECURSIVE _build_results(_, _, _, _, _)
_build_results(items, repositories, licenses, open_source_set, results) ==
    IF items = <<>> THEN results
    ELSE LET item == Head(items)
             idx  == IndexOf(item)
         IN  IF 0 <= idx /\ idx < Len(repositories)
             THEN LET repo == repositories[idx + 1]
                      is_open_source == repo.name \in open_source_set
                      code_examples ==
                          IF KeepsSnippet(item, is_open_source)
                          THEN << [language |-> SnippetLanguage(item, repo),
                                   code |-> item.quick_start[1].code] >>
                          ELSE <<>>
                  IN  _build_results(Tail(items), repositories, licenses,
                          open_source_set,
                          Append(results,
                              [repository |-> repo,
                               relevance_score |-> item.relevance_score,
                               license |-> DictGet(licenses, repo.name),
                               is_open_source |-> is_open_source,
                               code_examples |-> code_examples]))
             ELSE _build_results(Tail(items), repositories, licenses,
                                 open_source_set, results)

\* the outcome of a filter call: whether generate_content was called, whether
\* an exception leaves filter, and the list returned
FilterOutcome(called, raised, result) ==
    [called |-> called, raised |-> raised, result |-> result]

\* a filter without the early return on an empty list
filter_without_short_circuit(repositories, licenses, open_source_set, resp) ==
    IF resp.kind = "transport_error" THEN FilterOutcome(TRUE, TRUE, <<>>)
    ELSE IF resp.kind = "empty_text" THEN FilterOutcome(TRUE, FALSE, <<>>)
    ELSE IF resp.kind = "unparsed" THEN FilterOutcome(TRUE, FALSE, <<>>)
    ELSE FilterOutcome(TRUE, FALSE,
                       _build_results(resp.items, repositories, licenses,
                                      open_source_set, <<>>))

\* GeminiFilter.filter.  resp.kind: "transport_error" (generate_content
\* raises), "empty_text" (response.text is empty), "unparsed"
\* (response.parsed is None: the reply failed schema validation), "parsed".
\* The prompt built from the repositories and the readmes is the request
\* sent; nothing of it comes back but resp.
filter(repositories, licenses, open_source_set, resp) ==
    IF repositories = <<>> THEN FilterOutcome(FALSE, FALSE, <<>>)
    ELSE IF resp.kind = "transport_error" THEN FilterOutcome(TRUE, TRUE, <<>>)
    ELSE IF resp.kind = "empty_text" THEN FilterOutcome(TRUE, FALSE, <<>>)
    ELSE IF resp.kind = "unparsed" THEN FilterOutcome(TRUE, FALSE, <<>>)
    ELSE FilterOutcome(TRUE, FALSE,
                       _build_results(resp.items, repositories, licenses,
                                      open_source_set, <<>>))

(***************************************************************************)
(* scheduler.py                                                            *)
(***************************************************************************)
_convert_github_to_trend_item(filtered_repo) ==
    TrendItem("github", filtered_repo.repository.name,
              filtered_repo.repository.name,
              Some(filtered_repo.relevance_score),
              IF filtered_repo.code_examples # <<>>
                  THEN Some(filtered_repo.code_examples[1].code) ELSE None,
              filtered_repo.license,
              filtered_repo.is_open_source)

\* licenses = {name: e["license"] ...}
LicensesOf(enr) == [name \in DOMAIN enr |-> enr[name].license]

\* open_source_set = {name for name, e in enrichments.items() if e["is_open_source"]}
OpenSourceSetOf(enr) == {name \in DOMAIN enr : enr[name].is_open_source}

MapSeq(Op(_), seq) == [i \in 1..Len(seq) |-> Op(seq[i])]

(***************************************************************************)
(* The store driven directly: any sequence of upsert_items calls, one at a *)
(* time, with the clock free to advance between them.                      *)
(***************************************************************************)
StoreItems ==
    { TrendItem("github", "a", "T", Some(8), None, None, FALSE),
      TrendItem("github", "b", "T", Some(8), None, None, FALSE),
      TrendItem("hackernews", "a", "T", None, None, None, FALSE) }

StoreKeys == {KeyOf(x) : x \in StoreItems}

OptStrings == {None, Some(""), Some("x")}

\* the overlapping runs the model follows
Writers == {1, 2}

\* an upsert_items call: phase "idle" (not called), "select" (about to run
\* the existence query for items[pos]), "write" (about to run the update or
\* the insert the query result calls for), "done" (returned new_items)
IdleWriter ==
    [phase |-> "idle", items |-> <<>>, pos |-> 0, existing |-> <<>>,
     new_items |-> <<>>, now |-> 0]

NoCall == [fn |-> "none", args |-> <<>>, out |-> <<>>]

InitAux ==
    /\ call = NoCall
    /\ writers = [p \in Writers |-> IdleWriter]
    /\ overlapped = FALSE
    /\ inflight = {}
    /\ settled = <<>>

InitHist ==
    /\ InitAux
    /\ lastItems = <<>>
    /\ lastNew = <<>>
    /\ lastNow = 0
    /\ storeBefore = <<>>
    /\ callKind = "none"
    /\ prevNew = <<>>
    /\ prevBefore = <<>>

NoSend == [called |-> FALSE, items |-> <<>>, posted |-> FALSE, raised |-> FALSE,
           result |-> FALSE, status |-> 0]

InitPipe ==
    /\ pc = "idle"
    /\ github_repos = <<>>
    /\ enrichments = <<>>
    /\ response = [kind |-> "none", items |-> <<>>]
    /\ filtered = FilterOutcome(FALSE, FALSE, <<>>)
    /\ github_items = <<>>
    /\ all_items = <<>>
    /\ new_items = <<>>
    /\ sent = NoSend
    /\ delivered = {}

StoreInit ==
    /\ cfg \in [supabase_url : OptStrings, supabase_key : OptStrings,
                slack_webhook_url : {None},
                relevance_threshold : {DefaultThreshold}]
    /\ store = <<>>
    /\ clock = 0
    /\ InitHist
    /\ InitPipe

Tick ==
    /\ clock < MaxClock
    /\ clock' = clock + 1
    /\ UNCHANGED <<cfg, store, histVars, pipeVars, tailVars>>

UpsertCall ==
    \E items \in SeqsUpTo(StoreItems, MaxItems) :
        \E r \in {upsert_items(StorageClient(cfg.supabase_url, cfg.supabase_key),
                                store, items, clock)} :
            /\ store' = r.store
            /\ lastItems' = items
            /\ lastNew' = r.new_items
            /\ lastNow' = clock
            /\ storeBefore' = store
            /\ callKind' = "call"
            /\ prevNew' = <<>>
            /\ prevBefore' = <<>>
            /\ UNCHANGED <<cfg, clock, pipeVars, tailVars, auxVars>>

UpsertAgain ==
    /\ callKind = "call"
    /\ \E r \in {upsert_items(StorageClient(cfg.supabase_url, cfg.supabase_key),
                               store, lastItems, clock)} :
           /\ store' = r.store
           /\ lastNew' = r.new_items
           /\ lastNow' = clock
           /\ storeBefore' = store
           /\ callKind' = "again"
           /\ prevNew' = lastNew
           /\ prevBefore' = storeBefore
           /\ UNCHANGED <<cfg, clock, lastItems, pipeVars, tailVars, auxVars>>

StoreNext == Tick \/ UpsertCall \/ UpsertAgain

StoreSpec == StoreInit /\ [][StoreNext]_vars

(***************************************************************************)
(* Properties of the Deduplication Store                                   *)
(***************************************************************************)
Configured == StorageClient(cfg.supabase_url, cfg.supabase_key)

StoredKeys(st) == {KeyOf(st[i]) : i \in 1..Len(st)}

\* the items of `items` at the positions in I, in input order
AtPositions(items, I) ==
    LET F[k \in 0..Len(items)] ==
            IF k = 0 THEN <<>>
            ELSE IF k \in I THEN Append(F[k - 1], items[k]) ELSE F[k - 1]
    IN  F[Len(items)]

NewKeyPositions(before, items) ==
    {i \in 1..Len(items) : KeyOf(items[i]) \notin StoredKeys(before)}

FirstNewKeyPositions(before, items) ==
    {i \in NewKeyPositions(before, items) :
        \A j \in 1..(i - 1) : KeyOf(items[j]) # KeyOf(items[i])}

LastSeen(st, key) ==
    LET rows == SelectSeq(st, LAMBDA r : KeyOf(r) = key) IN rows[1].last_seen_at

\* C3 as stated: a configured store returns exactly the input items whose key
\* had no record before the call, in input order.
C3_ReturnsEveryItemOfNewKey ==
    (Configured /\ callKind # "none") =>
        lastNew = AtPositions(lastItems, NewKeyPositions(storeBefore, lastItems))

\* C3 amended: a configured store returns exactly the first occurrence in the
\* input of each key that had no record before the call, in input order; the
\* title and the other fields play no part.
C3_ReturnsFirstOccurrenceOfNewKeys ==
    (Configured /\ callKind # "none") =>
        lastNew = AtPositions(lastItems, FirstNewKeyPositions(storeBefore, lastItems))

\* C3 witness: against a table that already holds a record, two items with
\* the same source and title and different source_id both come back as novel.
C3_Witness ==
    /\ Configured
    /\ callKind = "call"
    /\ storeBefore # <<>>
    /\ Len(lastNew) = 2
    /\ lastNew[1].source = lastNew[2].source
    /\ lastNew[1].title = lastNew[2].title
    /\ lastNew[1].source_id # lastNew[2].source_id

\* C4: calling upsert_items twice in sequence with the same list returns
\* every new key on the first call (once each, in input order) and nothing on
\* the second, and no key of the list has its last-seen timestamp moved back
\* by the second call.
C4_Idempotent ==
    (Configured /\ callKind = "again") =>
        /\ {KeyOf(x) : x \in Range(prevNew)}
               = {KeyOf(x) : x \in Range(lastItems)} \ StoredKeys(prevBefore)
        /\ \A x \in Range(lastItems) :
               KeyOf(x) \notin StoredKeys(prevBefore) =>
                   Cardinality({i \in 1..Len(prevNew) : KeyOf(prevNew[i]) = KeyOf(x)}) = 1
        /\ lastNew = <<>>
        /\ \A x \in Range(lastItems) :
               /\ KeyOf(x) \in StoredKeys(storeBefore)
               /\ KeyOf(x) \in StoredKeys(store)
               /\ LastSeen(store, KeyOf(x)) >= LastSeen(storeBefore, KeyOf(x))

\* C4 witness: a repeated call, made later than the first, whose first call
\* returned two novel items.
C4_Witness ==
    /\ Configured
    /\ callKind = "again"
    /\ Len(prevNew) = 2
    /\ lastNew = <<>>
    /\ \E x \in Range(lastItems) :
           LastSeen(store, KeyOf(x)) > LastSeen(storeBefore, KeyOf(x))

\* C5: across upsert_items calls no row is removed or re-keyed, a row's
\* first-seen timestamp never changes once written, a row inserted by a call
\* carries that call's `now` as first-seen and last-seen, and after a call
\* every key of its list has last-seen equal to that call's `now`.
C5_RecordLifecycle ==
    [][ /\ Len(store') >= Len(store)
        /\ \A i \in 1..Len(store) :
               /\ store'[i].id = store[i].id
               /\ KeyOf(store'[i]) = KeyOf(store[i])
               /\ store'[i].first_seen_at = store[i].first_seen_at
        /\ \A i \in (Len(store) + 1)..Len(store') :
               /\ store'[i].first_seen_at = lastNow'
               /\ store'[i].last_seen_at = lastNow'
        /\ (Configured' /\ callKind' # "none") =>
               \A x \in Range(lastItems') :
                   /\ KeyOf(x) \in StoredKeys(store')
                   /\ LastSeen(store', KeyOf(x)) = lastNow'
      ]_vars

\* C5 witness: a key observed again by a later call: its row keeps the
\* first-seen timestamp of the insert and carries the later call's `now`.
C5_Witness ==
    /\ Configured
    /\ callKind # "none"
    /\ \E i \in 1..Len(store) :
           /\ KeyOf(store[i]) \in {KeyOf(x) : x \in Range(lastItems)}
           /\ store[i].first_seen_at < store[i].last_seen_at
           /\ store[i].last_seen_at = lastNow

\* no two elements of seq have the same (source, source_id)
KeysDistinct(seq) ==
    \A i, j \in 1..Len(seq) : KeyOf(seq[i]) = KeyOf(seq[j]) => i = j

\* C19: from an empty table, after any sequence of upsert_items calls made
\* one at a time, lists that repeat a key included, the table holds at most
\* one row per (source, source_id) and no call returns two items of one key.
C19_KeyUniqueness ==
    /\ KeysDistinct(store)
    /\ KeysDistinct(lastNew)

\* C19 witness: a call whose list holds the same new key twice: one item
\* comes back as new and the table ends with one row for the key.
C19_Witness ==
    /\ Configured
    /\ callKind = "call"
    /\ Len(lastItems) = 2
    /\ KeyOf(lastItems[1]) = KeyOf(lastItems[2])
    /\ KeyOf(lastItems[1]) \notin StoredKeys(storeBefore)
    /\ Len(lastNew) = 1
    /\ Cardinality({i \in 1..Len(store) : KeyOf(store[i]) = KeyOf(lastItems[1])}) = 1

(***************************************************************************)
(* run(), stages 1 to 3: fetch the trending page, enrich, classify and     *)
(* convert.  Each stage is one await of run(); an exception raised in a    *)
(* stage is caught nowhere in run() and ends it.                           *)
(***************************************************************************)
\* pc of a run ended by an exception, by the stage that raised it
Aborted == {"aborted_fetch", "aborted_filter", "aborted_hn", "aborted_notify"}

\* main(): asyncio.run(run()) in a fresh process; nothing of an earlier run
\* is left but the table
Trigger ==
    /\ pc \in {"idle", "done"} \cup Aborted
    /\ pc' = "fetch"
    /\ github_repos' = <<>>
    /\ enrichments' = <<>>
    /\ response' = [kind |-> "none", items |-> <<>>]
    /\ filtered' = FilterOutcome(FALSE, FALSE, <<>>)
    /\ github_items' = <<>>
    /\ all_items' = <<>>
    /\ new_items' = <<>>
    /\ sent' = NoSend
    /\ UNCHANGED <<cfg, storeVars, histVars, delivered>>

GitHubFetchStep(Pages) ==
    /\ pc = "fetch"
    /\ \E reply \in Pages :
       \E r \in {GitHubFetch(reply)} :
           /\ github_repos' = r.result
           /\ pc' = IF r.raised THEN "aborted_fetch" ELSE "enrich"
    /\ UNCHANGED <<cfg, storeVars, histVars, enrichments, response, filtered,
                   github_items, tailVars>>

EnrichStep(Nets) ==
    /\ pc = "enrich"
    /\ LET repo_names == [i \in 1..Len(github_repos) |-> github_repos[i].name]
       IN  \E nets \in [1..Len(github_repos) -> Nets] :
               enrichments' = fetch_metadata_many(repo_names, nets)
    /\ pc' = "filter"
    /\ UNCHANGED <<cfg, storeVars, histVars, github_repos, response, filtered,
                   github_items, tailVars>>

FilterStep(Responses) ==
    /\ pc = "filter"
    /\ \E resp \in Responses :
       \E r \in {filter(github_repos, LicensesOf(enrichments),
                        OpenSourceSetOf(enrichments), resp)} :
           /\ response' = IF r.called THEN resp ELSE [kind |-> "none", items |-> <<>>]
           /\ filtered' = r
           /\ github_items' = MapSeq(_convert_github_to_trend_item, r.result)
           /\ pc' = IF r.raised THEN "aborted_filter" ELSE "hn"
    /\ UNCHANGED <<cfg, storeVars, histVars, github_repos, enrichments, tailVars>>

(***************************************************************************)
(* The classification pipeline on its own, over every page, every          *)
(* enrichment outcome and every reply of the reasoning service.            *)
(***************************************************************************)
ClassifyArticles ==
    { Article(Some("/o/a"), Some("Python"), "1,234"),
      Article(Some("/o/b"), None, ""),
      Article(None, None, "57"),
      Article(Some("/o/a"), None, "1.2k") }

ClassifyPages ==
    { Reply(TRUE, 0, <<>>), Reply(FALSE, 500, <<>>) }
    \cup { Reply(FALSE, 200, body) : body \in SeqsUpTo(ClassifyArticles, MaxRepos) }

ReadmeNets ==
    { [i \in 1..4 |-> Reply(TRUE, 0, "")],
      [i \in 1..4 |-> Reply(FALSE, 404, "")],
      [i \in 1..4 |-> IF i = 2 THEN Reply(FALSE, 200, "# usage") ELSE Reply(FALSE, 404, "")] }

LicenseNets ==
    { Reply(TRUE, 0, ""), Reply(FALSE, 404, ""), Reply(FALSE, 200, ""),
      Reply(FALSE, 200, "MIT"), Reply(FALSE, 200, "NOASSERTION") }

ClassifyNets == [readme : ReadmeNets, license : LicenseNets]

RespItems ==
    { FilteredItem(i, v[1], v[2]) :
        i \in (-1)..(MaxRepos + 1),
        v \in { <<5, None>>, <<9, Some(QuickStartCode("", ""))>>,
                <<6, Some(QuickStartCode("", "run()"))>> } }

ClassifyResponses ==
    { [kind |-> k, items |-> <<>>] : k \in {"transport_error", "empty_text", "unparsed"} }
    \cup { [kind |-> "parsed", items |-> items] : items \in SeqsUpTo(RespItems, MaxResp) }

ClassifyInit ==
    /\ cfg = [supabase_url |-> None, supabase_key |-> None,
              slack_webhook_url |-> None,
              relevance_threshold |-> DefaultThreshold]
    /\ store = <<>>
    /\ clock = 0
    /\ InitHist
    /\ InitPipe

ClassifyNext ==
    \/ Trigger
    \/ GitHubFetchStep(ClassifyPages)
    \/ EnrichStep(ClassifyNets)
    \/ FilterStep(ClassifyResponses)

ClassifySpec == ClassifyInit /\ [][ClassifyNext]_vars

(***************************************************************************)
(* Properties of the Relevance Classifier                                  *)
(***************************************************************************)
Classified == pc \in {"hn", "aborted_filter"} /\ response.kind # "none"

\* the license id fetch_metadata_many recorded for a repository is on the
\* allow-list (an absent or empty id is not)
LicenseAllowed(name) ==
    /\ name \in DOMAIN enrichments
    /\ enrichments[name].license # None
    /\ enrichments[name].license[1] \in OPEN_SOURCE_LICENSES

\* C6: whatever the reasoning service replies and however the enrichment
\* went, an item of the classifier output carries code examples, and the
\* Canonical Trend Item converted from it carries a code example, only if
\* the license recorded for its repository is on the allow-list.
C6_SnippetOnlyIfOpenSource ==
    /\ Len(github_items) = Len(filtered.result)
    /\ \A i \in 1..Len(filtered.result) :
          /\ (github_items[i].code_example # None) <=> (filtered.result[i].code_examples # <<>>)
          /\ github_items[i].source_id = filtered.result[i].repository.name
          /\ filtered.result[i].code_examples # <<>> =>
                 LicenseAllowed(filtered.result[i].repository.name)

\* C6 witness: the license fetch failed, the service proposes a snippet for
\* the repository, and the item comes out without one.
C6_Witness ==
    /\ pc = "hn"
    /\ Len(response.items) = 1
    /\ response.items[1].index = 1
    /\ response.items[1].quick_start # None
    /\ response.items[1].quick_start[1].code # ""
    /\ enrichments[github_repos[1].name].license = None
    /\ enrichments[github_repos[1].name].readme = None
    /\ Len(github_items) = 1
    /\ github_items[1].code_example = None
    /\ ~github_items[1].is_open_source

\* C7 as stated: no item of the output of GeminiFilter.filter has a
\* relevance score below the configured threshold.
C7_NoItemBelowThreshold ==
    \A i \in 1..Len(filtered.result) :
        filtered.result[i].relevance_score >= cfg.relevance_threshold

\* positions of the reply whose declared index lies in [1, len(records)]
InRangePositions(items, n) == {i \in 1..Len(items) : 1 <= items[i].index /\ items[i].index <= n}

\* C8: a reply item whose declared position is 0, negative or beyond the
\* input is dropped, without error and without effect on the others; every
\* item with position p in [1, len(records)] is mapped to the record at p,
\* and the output keeps the order of the reply.
C8_IndexCorrelation ==
    (Classified /\ response.kind = "parsed") =>
        LET kept == AtPositions(response.items,
                                InRangePositions(response.items, Len(github_repos)))
        IN  /\ ~filtered.raised
            /\ Len(filtered.result) = Len(kept)
            /\ \A j \in 1..Len(kept) :
                  /\ filtered.result[j].repository = github_repos[kept[j].index]
                  /\ filtered.result[j].relevance_score = kept[j].relevance_score

\* C8 witness: a reply whose first item declares position 0 and whose second
\* declares the last record, which alone comes out.
C8_Witness ==
    /\ pc = "hn"
    /\ Len(github_repos) = 2
    /\ Len(response.items) = 2
    /\ response.items[1].index = 0
    /\ response.items[2].index = 2
    /\ Len(filtered.result) = 1
    /\ filtered.result[1].repository = github_repos[2]

\* C9 as stated: when the call to the reasoning service fails or its reply
\* cannot be validated, filter returns an empty list and does not raise.
C9_FailureDegradesToEmpty ==
    (Classified /\ response.kind \in {"transport_error", "unparsed"}) =>
        /\ ~filtered.raised
        /\ filtered.result = <<>>
        /\ pc # "aborted_filter"

(***************************************************************************)
(* run(), stages 4 to 8: Hacker News, merge, save, notify.                 *)
(***************************************************************************)
\* hn_source.fetch(limit=50)
HnLimit == 50

\* all_items = github_items + hn_items[:10]
HnCap == 10

HnStep(Tops) ==
    /\ pc = "hn"
    /\ \E top \in Tops :
       \E details \in [1..Len(top.body) -> UNION {DetailReplies(id) : id \in Range(top.body)}] :
           /\ \A i \in 1..Len(top.body) : details[i] \in DetailReplies(top.body[i])
           /\ \E r \in {HnFetch(top, details, HnLimit)} :
                  /\ all_items' = IF r.raised THEN <<>>
                                  ELSE github_items \o Take(r.result, HnCap)
                  /\ pc' = IF r.raised THEN "aborted_hn" ELSE "save"
    /\ UNCHANGED <<cfg, storeVars, histVars, github_repos, enrichments, response,
                   filtered, github_items, new_items, sent, delivered>>

\* 7. storage.upsert_items(all_items), or new_items = all_items without a store
SaveStep ==
    /\ pc = "save"
    /\ IF StorageClient(cfg.supabase_url, cfg.supabase_key)
       THEN \E r \in {upsert_items(TRUE, store, all_items, clock)} :
                /\ store' = r.store
                /\ new_items' = r.new_items
       ELSE /\ store' = store
            /\ new_items' = all_items
    /\ pc' = "notify"
    /\ UNCHANGED <<cfg, clock, histVars, github_repos, enrichments, response,
                   filtered, github_items, all_items, sent, delivered>>

SendRecord(items, r) ==
    [called |-> TRUE, items |-> items, posted |-> r.posted, raised |-> r.raised,
     result |-> r.result, status |-> r.status]

\* 8. notifier.send(new_items) when notifier.is_configured and new_items
NotifyStep(Replies) ==
    /\ pc = "notify"
    /\ IF is_configured(cfg.slack_webhook_url) /\ new_items # <<>>
       THEN \E reply \in Replies :
            \E r \in {send(cfg.slack_webhook_url, new_items, reply)} :
                /\ sent' = SendRecord(new_items, r)
                /\ delivered' = IF r.result
                                THEN delivered \cup {KeyOf(x) : x \in Range(new_items)}
                                ELSE delivered
                /\ pc' = IF r.raised THEN "aborted_notify" ELSE "done"
       ELSE /\ pc' = "done"
            /\ UNCHANGED <<sent, delivered>>
    /\ UNCHANGED <<cfg, storeVars, histVars, github_repos, enrichments, response,
                   filtered, github_items, all_items, new_items>>

(***************************************************************************)
(* The scheduler: run() triggered again and again over one table.          *)
(***************************************************************************)
SchedPages ==
    { Reply(TRUE, 0, <<>>), Reply(FALSE, 200, <<>>),
      Reply(FALSE, 200, << Article(Some("/o/a"), Some("Python"), "1,234") >>) }

SchedNets ==
    { [readme |-> [i \in 1..4 |-> Reply(TRUE, 0, "")], license |-> Reply(TRUE, 0, "")],
      [readme |-> [i \in 1..4 |-> Reply(FALSE, 200, "# usage")],
       license |-> Reply(FALSE, 200, "MIT")] }

SchedResponses ==
    { [kind |-> "transport_error", items |-> <<>>],
      [kind |-> "unparsed", items |-> <<>>],
      [kind |-> "parsed", items |-> <<>>],
      [kind |-> "parsed",
       items |-> << FilteredItem(1, 8, Some(QuickStartCode("", "run()"))) >>] }

SchedTops ==
    { Reply(TRUE, 0, <<>>), Reply(FALSE, 503, <<>>), Reply(FALSE, 200, <<>>),
      Reply(FALSE, 200, <<1>>) }

SchedSlackReplies == { Reply(TRUE, 0, ""), Reply(FALSE, 200, ""), Reply(FALSE, 500, "") }

SchedConfigs ==
    [supabase_url : {None, Some("https://db.test")},
     supabase_key : {Some("anon")},
     slack_webhook_url : WebhookUrls,
     relevance_threshold : {DefaultThreshold}]

Init ==
    /\ cfg \in SchedConfigs
    /\ store = <<>>
    /\ clock = 0
    /\ InitHist
    /\ InitPipe

RunStep ==
    \/ Trigger
    \/ GitHubFetchStep(SchedPages)
    \/ EnrichStep(SchedNets)
    \/ FilterStep(SchedResponses)
    \/ HnStep(SchedTops)
    \/ SaveStep
    \/ NotifyStep(SchedSlackReplies)

Next == Tick \/ RunStep

Spec == Init /\ [][Next]_vars

\* Runs keep being triggered and every await of run() returns; no service
\* stays down for ever: a stage entered again and again gets through again
\* and again, and a POST issued again and again is answered 200 again and
\* again.
FairSpec ==
    /\ Init /\ [][Next]_vars
    /\ WF_vars(RunStep)
    /\ SF_vars(GitHubFetchStep(SchedPages) /\ pc' = "enrich")
    /\ SF_vars(FilterStep(SchedResponses) /\ pc' = "hn")
    /\ SF_vars(HnStep(SchedTops) /\ pc' = "save")
    /\ SF_vars(NotifyStep({Reply(FALSE, 200, "")}))

(***************************************************************************)
(* The notifier driven directly.                                           *)
(***************************************************************************)
NotifierInit ==
    /\ cfg \in [supabase_url : {None}, supabase_key : {None},
                slack_webhook_url : WebhookUrls,
                relevance_threshold : {DefaultThreshold}]
    /\ store = <<>>
    /\ clock = 0
    /\ InitHist
    /\ InitPipe

SendCall ==
    /\ \E items \in SeqsUpTo(StoreItems, MaxItems) :
       \E reply \in SlackReplies :
       \E r \in {send(cfg.slack_webhook_url, items, reply)} :
           /\ sent' = SendRecord(items, r)
           /\ delivered' = IF r.result
                           THEN delivered \cup {KeyOf(x) : x \in Range(items)}
                           ELSE delivered
    /\ UNCHANGED <<cfg, storeVars, histVars, pipeVars, all_items, new_items>>

NotifierNext == SendCall

NotifierSpec == NotifierInit /\ [][NotifierNext]_vars

(***************************************************************************)
(* Properties of the Notifier                                              *)
(***************************************************************************)
\* C10: send returns false and issues no POST whenever the webhook URL is
\* missing (None or empty) or the item list is empty, whatever the items.
C10_NoDeliveryWhenUnconfiguredOrEmpty ==
    (/\ sent.called
     /\ \/ cfg.slack_webhook_url = None
        \/ cfg.slack_webhook_url = Some("")
        \/ sent.items = <<>>) =>
        /\ ~sent.posted
        /\ ~sent.result

\* C10 witness: send called without a webhook URL on a non-empty list.
C10_Witness ==
    /\ sent.called
    /\ cfg.slack_webhook_url = None
    /\ Len(sent.items) = 2
    /\ ~sent.posted
    /\ ~sent.result

\* C12 as stated: for a configured notifier and a non-empty list, send
\* returns True exactly when the status code of the response is in 200..299.
C12_Every2xxIsSuccess ==
    (sent.called /\ sent.posted /\ sent.status # 0) =>
        (sent.result <=> sent.status \in 200..299)

\* C21 as stated: for every webhook_url (None, "", a URL), is_configured is
\* True exactly when send on a non-empty list issues the POST.
C21_FlagMatchesDelivery ==
    (sent.called /\ sent.items # <<>>) =>
        (is_configured(cfg.slack_webhook_url) <=> sent.posted)

(***************************************************************************)
(* Properties of the scheduler run                                         *)
(***************************************************************************)
SchedKeys == { <<"github", "o/a">>, <<"hackernews", "1">> }

\* C1 as stated: with store and notifier configured, every key recorded in
\* the table by some run is eventually in a batch for which send returned
\* True, in that run or a later one, whatever the POST met in between.
C1_AtLeastOnceDelivery ==
    \A k \in SchedKeys :
        (/\ StorageClient(cfg.supabase_url, cfg.supabase_key)
         /\ Truthy(cfg.slack_webhook_url)
         /\ k \in StoredKeys(store)) ~> (k \in delivered)

\* C2 as stated: a failure of the repository fetch, of the enrichment or of
\* the classification does not end the run: the run goes on to Hacker News,
\* the store and the notifier with zero repository items.
C2_RepositoryFailureIsIsolated ==
    pc \notin {"aborted_fetch", "aborted_filter"}

\* the POST of the latest send met httpx.RequestError (status 0) or a
\* response outside 2xx
DeliveryFailed == sent.called /\ sent.posted /\ sent.status \notin 200..299

\* C11: with a webhook URL and a non-empty list, a POST that meets
\* httpx.RequestError or a response outside 2xx makes send return False, no
\* exception leaves send, and run() reaches its end.
C11_NotifierFailureContained ==
    DeliveryFailed =>
        /\ ~sent.result
        /\ ~sent.raised
        /\ pc = "done"

\* C11 witness: a run whose POST raised httpx.RequestError and which ended
\* normally, nothing delivered.
C11_Witness ==
    /\ DeliveryFailed
    /\ sent.status = 0
    /\ sent.items # <<>>
    /\ ~sent.result
    /\ pc = "done"

(***************************************************************************)
(* The adapters and the enricher called directly, each on every input of   *)
(* its bounded input set.                                                  *)
(***************************************************************************)
RepoNames == {"o/a", "o/b"}

\* the license ids _is_open_source is applied to
LicenseIds ==
    {None, Some("")}
    \cup {Some(id) : id \in OPEN_SOURCE_LICENSES}
    \cup {Some(id) : id \in {"MIT", "Mit", "Apache-2.0", "Proprietary",
                              "proprietary", "NOASSERTION", "noassertion"}}

HnStoryIds == {1, 2}

\* the replies of the item endpoint for story id: a transport error, a 404,
\* the JSON null, a job posting, a story
HnItemReplies(id) ==
    { Reply(TRUE, 0, None), Reply(FALSE, 404, None), Reply(FALSE, 200, None),
      Reply(FALSE, 200, Some(Story(id, "job", "T"))),
      Reply(FALSE, 200, Some(Story(id, "story", "T"))) }

HnTops ==
    { Reply(TRUE, 0, <<>>), Reply(FALSE, 503, <<>>) }
    \cup { Reply(FALSE, 200, ids) : ids \in SeqsUpTo(HnStoryIds, MaxItems) }

CallInit ==
    /\ cfg = [supabase_url |-> None, supabase_key |-> None,
              slack_webhook_url |-> None,
              relevance_threshold |-> DefaultThreshold]
    /\ store = <<>>
    /\ clock = 0
    /\ InitHist
    /\ InitPipe

CallUnchanged ==
    UNCHANGED <<cfg, storeVars, lastItems, lastNew, lastNow, storeBefore,
                callKind, prevNew, prevBefore, writers, overlapped, inflight,
                settled, pipeVars, tailVars>>

\* the calls are pure: each is applied once, to a fresh instance

GitHubFetchCall ==
    /\ call = NoCall
    /\ \E reply \in ClassifyPages :
           call' = [fn |-> "github_fetch", args |-> reply, out |-> GitHubFetch(reply)]
    /\ CallUnchanged

HnFetchCall ==
    /\ call = NoCall
    /\ \E top \in HnTops :
       \E details \in [1..Len(top.body) ->
                          UNION {HnItemReplies(id) : id \in Range(top.body)}] :
           /\ \A i \in 1..Len(top.body) : details[i] \in HnItemReplies(top.body[i])
           /\ call' = [fn |-> "hn_fetch",
                       args |-> [top |-> top, details |-> details],
                       out |-> HnFetch(top, details, HnLimit)]
    /\ CallUnchanged

IsOpenSourceCall ==
    /\ call = NoCall
    /\ \E license_id \in LicenseIds :
           call' = [fn |-> "_is_open_source", args |-> license_id,
                    out |-> _is_open_source(license_id)]
    /\ CallUnchanged

FetchMetadataManyCall ==
    /\ call = NoCall
    /\ \E repo_names \in SeqsUpTo(RepoNames, MaxRepos) :
       \E nets \in [1..Len(repo_names) -> ClassifyNets] :
           call' = [fn |-> "fetch_metadata_many",
                    args |-> [repo_names |-> repo_names, nets |-> nets],
                    out |-> fetch_metadata_many(repo_names, nets)]
    /\ CallUnchanged

CallNext ==
    \/ GitHubFetchCall
    \/ HnFetchCall
    \/ IsOpenSourceCall
    \/ FetchMetadataManyCall

CallSpec == CallInit /\ [][CallNext]_vars

(***************************************************************************)
(* Properties of the enricher and of the source adapters                   *)
(***************************************************************************)
\* the position whose result dict(zip(...)) keeps for name
LastPosition(repo_names, name) ==
    CHOOSE i \in 1..Len(repo_names) :
        /\ repo_names[i] = name
        /\ \A j \in 1..Len(repo_names) : repo_names[j] = name => j <= i

\* no README file name was answered 200
ReadmeFailed(net) == \A k \in 1..Len(net.readme) :
                         net.readme[k].exc \/ net.readme[k].status # 200

\* the license request raised or was answered by another status than 200
LicenseFailed(net) == net.license.exc \/ net.license.status # 200

WellFormedArticle(article) ==
    article.href # None /\ article.stars_text \in {"", "1,234", "57"}

\* the detail reply carries a story
IsStoryReply(reply) ==
    ~reply.exc /\ reply.status = 200 /\ reply.body # None
        /\ reply.body[1].type = "story"

\* C17 as stated: when the top-level fetch succeeds, fetch does not raise;
\* it returns, in the order of the source and without deduplication, one
\* record per well-formed entry, and leaves out each malformed one.
C17_MalformedEntryIsOmitted ==
    /\ (call.fn = "github_fetch" /\ ~call.args.exc /\ call.args.status \in 200..299) =>
           LET good == SelectSeq(call.args.body, WellFormedArticle)
           IN  /\ ~call.out.raised
               /\ Len(call.out.result) = Len(good)
               /\ \A i \in 1..Len(good) :
                      call.out.result[i].name = StripSlashes(good[i].href[1])
    /\ (call.fn = "hn_fetch" /\ ~call.args.top.exc /\ call.args.top.status = 200) =>
           LET ids == call.args.top.body
               kept == AtPositions(ids, {i \in 1..Len(ids) :
                                            IsStoryReply(call.args.details[i])})
           IN  /\ ~call.out.raised
               /\ Len(call.out.result) = Len(kept)
               /\ \A i \in 1..Len(kept) :
                      call.out.result[i].source_id = ToStr(kept[i])

\* every allow-listed id, and the mixed-case spellings of the ids drawn
OpenSourceSpellings == OPEN_SOURCE_LICENSES \cup {"MIT", "Mit", "Apache-2.0"}

\* C18: _is_open_source is True exactly for the ids of the allow-list in any
\* letter case, False for None, "" and every other id; the is_open_source of
\* an enrichment entry is that test applied to the license id recorded, and
\* is the same whether or not a README was fetched.
C18_OpenSourceIsAllowListMembership ==
    /\ call.fn = "_is_open_source" =>
           (call.out <=> (call.args # None /\ call.args[1] \in OpenSourceSpellings))
    /\ call.fn = "fetch_metadata_many" =>
           \A name \in DOMAIN call.out :
               call.out[name].is_open_source <=>
                   (/\ call.out[name].license # None
                    /\ call.out[name].license[1] \in OPEN_SOURCE_LICENSES)

\* C18 witness: the test applied to "MIT" in capitals answers True.
C18_Witness ==
    /\ call.fn = "_is_open_source"
    /\ call.args = Some("MIT")
    /\ call.out = TRUE

(***************************************************************************)
(* Two overlapping runs calling upsert_items on one table.  Every          *)
(* .execute() is one request to the table; the requests of the two calls   *)
(* interleave freely.                                                      *)
(***************************************************************************)
RaceInit ==
    /\ cfg = [supabase_url |-> Some("https://db.test"), supabase_key |-> Some("anon"),
              slack_webhook_url |-> None,
              relevance_threshold |-> DefaultThreshold]
    /\ store = <<>>
    /\ clock = 0
    /\ InitHist
    /\ InitPipe

RaceUnchanged ==
    UNCHANGED <<cfg, clock, lastItems, lastNew, lastNow, storeBefore, callKind,
                prevNew, prevBefore, call, inflight, settled, pipeVars, tailVars>>

InProgress(p) == writers[p].phase \in {"select", "write"}

\* upsert_items entered: the guard of lines 33-34, new_items = [], now
BeginUpsert(p) ==
    /\ writers[p].phase = "idle"
    /\ \E items \in SeqsUpTo(StoreItems, MaxItems) :
           /\ writers' = [writers EXCEPT ![p] =
                  IF ~StorageClient(cfg.supabase_url, cfg.supabase_key) \/ items = <<>>
                  THEN [IdleWriter EXCEPT !.phase = "done"]
                  ELSE [phase |-> "select", items |-> items, pos |-> 1,
                        existing |-> <<>>, new_items |-> <<>>, now |-> clock]]
           /\ overlapped' = (overlapped \/
                                (items # <<>> /\ \E q \in Writers \ {p} : InProgress(q)))
    /\ store' = store
    /\ RaceUnchanged

\* the existence query for items[pos]
SelectStep(p) ==
    /\ writers[p].phase = "select"
    /\ writers' = [writers EXCEPT
           ![p].existing = SelectExisting(store, writers[p].items[writers[p].pos]),
           ![p].phase = "write"]
    /\ UNCHANGED <<store, overlapped>>
    /\ RaceUnchanged

\* the update or the insert the query result calls for, then the next item
WriteStep(p) ==
    /\ writers[p].phase = "write"
    /\ LET w    == writers[p]
           item == w.items[w.pos]
           data == RowData(item, w.now)
       IN  /\ store' = IF w.existing # <<>>
                       THEN UpdateRow(store, w.existing[1].id, data)
                       ELSE InsertRow(store, data, w.now)
           /\ writers' = [writers EXCEPT
                  ![p].new_items = IF w.existing # <<>> THEN w.new_items
                                   ELSE Append(w.new_items, item),
                  ![p].existing = <<>>,
                  ![p].pos = IF w.pos = Len(w.items) THEN w.pos ELSE w.pos + 1,
                  ![p].phase = IF w.pos = Len(w.items) THEN "done" ELSE "select"]
    /\ UNCHANGED overlapped
    /\ RaceUnchanged

RaceNext == \E p \in Writers : BeginUpsert(p) \/ SelectStep(p) \/ WriteStep(p)

RaceSpec == RaceInit /\ [][RaceNext]_vars

\* keys the call of writer p returned as new
ReturnedNew(p) == {KeyOf(x) : x \in Range(writers[p].new_items)}

BothReturned == \A p \in Writers : writers[p].phase = "done"

\* C20 as stated: however the requests of two concurrent upsert_items calls
\* interleave, a key is returned as new by at most one of them and the table
\* ends with one row for it.
C20_CheckAndInsertAtomic ==
    BothReturned =>
        /\ KeysDistinct(store)
        /\ \A p, q \in Writers : p # q => ReturnedNew(p) \cap ReturnedNew(q) = {}

\* C20 amended: when the two calls do not overlap (one returns before the
\* other starts), a key is returned as new by at most one of them, every key
\* of either list has exactly one row, and a key of both lists is returned
\* by exactly one call.
C20_NonOverlappingCallsAgree ==
    (BothReturned /\ ~overlapped) =>
        /\ KeysDistinct(store)
        /\ \A p, q \in Writers : p # q => ReturnedNew(p) \cap ReturnedNew(q) = {}
        /\ \A p \in Writers : \A x \in Range(writers[p].items) :
               /\ KeyOf(x) \in StoredKeys(store)
               /\ \E q \in Writers : KeyOf(x) \in ReturnedNew(q)

\* C20 witness: two calls, one after the other, on lists that share a key:
\* the first returned it, the second did not, one row holds it.
C20_Witness ==
    /\ BothReturned
    /\ ~overlapped
    /\ \E x \in Range(writers[1].items) :
           /\ KeyOf(x) \in {KeyOf(y) : y \in Range(writers[2].items)}
           /\ Cardinality({p \in Writers : KeyOf(x) \in ReturnedNew(p)}) = 1
           /\ Cardinality({i \in 1..Len(store) : KeyOf(store[i]) = KeyOf(x)}) = 1

(***************************************************************************)
(* Properties of the scheduler run, continued                              *)
(***************************************************************************)
\* C15 as stated: in every configuration, the items a run passes to send are
\* the ones upsert_items returned as novel in that run, and no item whose
\* key was in a batch delivered by an earlier run is passed to send again.
C15_OnlyNovelItemsNotified ==
    [][ (sent'.called /\ ~sent.called) =>
            /\ sent'.items = new_items
            /\ \A x \in Range(sent'.items) : KeyOf(x) \notin delivered
      ]_vars

\* the trending page held no repository and the run is past the classifier
ZeroRepositories ==
    /\ github_repos = <<>>
    /\ pc \in {"hn", "save", "notify", "done",
               "aborted_filter", "aborted_hn", "aborted_notify"}

\* both adapters returned and brought no record
ZeroRecords ==
    /\ github_repos = <<>>
    /\ all_items = <<>>
    /\ pc \in {"save", "notify", "done", "aborted_notify"}

\* C16: when the adapters return no record, filter does not call the
\* reasoning service and does not raise, the novel set stays empty, send is
\* never called, and the run is not ended by an exception.
C16_ZeroRecordsRun ==
    /\ ZeroRepositories =>
           /\ ~filtered.called
           /\ ~filtered.raised
           /\ response.kind = "none"
           /\ github_items = <<>>
           /\ pc # "aborted_filter"
    /\ ZeroRecords =>
           /\ new_items = <<>>
           /\ ~sent.called
           /\ pc # "aborted_notify"

\* C16 witness: store and notifier configured, a run with no record at all
\* reached its end without a classifier call and without a send.
C16_Witness ==
    /\ ZeroRecords
    /\ pc = "done"
    /\ StorageClient(cfg.supabase_url, cfg.supabase_key)
    /\ Truthy(cfg.slack_webhook_url)
    /\ ~filtered.called
    /\ new_items = <<>>
    /\ ~sent.called

(***************************************************************************)
(* run() with its fan-outs unfolded.  A task is <<kind, i>>: the           *)
(* fetch_metadata coroutine of the i-th name ("metadata"), its two         *)
(* sub-fetches ("readme", "license"), and the _fetch_item coroutine of the *)
(* i-th story id ("item").  Tasks settle one at a time in any order; the   *)
(* awaiting coroutine resumes when asyncio.gather lets it.                 *)
(***************************************************************************)
Task(kind, i) == <<kind, i>>

\* a gather that resumes as soon as one of its tasks has settled
gather_first_completed(tasks, running) == tasks = {} \/ ~(tasks \subseteq running)

\* await asyncio.gather(*tasks): resumes when none of its tasks is running
gather(tasks, running) == tasks \cap running = {}

\* what a task came back with; a task that has not settled has nothing
ResultOf(t, nothing) == IF t \in DOMAIN settled THEN settled[t] ELSE nothing

SubFetches(i) == {Task("readme", i), Task("license", i)}

MetadataTasks(n) == {Task("metadata", i) : i \in 1..n}

ItemTasks(n) == {Task("item", i) : i \in 1..n}

\* the replies the sub-fetches of fetch_metadata(i) met
NetOf(i) ==
    [readme |-> ResultOf(Task("readme", i), <<>>),
     license |-> ResultOf(Task("license", i), Reply(TRUE, 0, ""))]

GatherUnchanged ==
    UNCHANGED <<cfg, storeVars, lastItems, lastNew, lastNow, storeBefore, callKind,
                prevNew, prevBefore, call, writers, overlapped>>

\* fetch_metadata_many: one fetch_metadata coroutine per name, each creating
\* its two sub-fetches
EnrichStart ==
    /\ pc = "enrich"
    /\ inflight' = MetadataTasks(Len(github_repos))
                       \cup UNION {SubFetches(i) : i \in 1..Len(github_repos)}
    /\ settled' = <<>>
    /\ pc' = "enrich_gather"
    /\ GatherUnchanged
    /\ UNCHANGED <<github_repos, enrichments, response, filtered, github_items, tailVars>>

\* _fetch_readme or _fetch_license of one name returns
SubFetchSettle(Readmes, Licenses) ==
    /\ \E t \in inflight :
           /\ t[1] \in {"readme", "license"}
           /\ \E reply \in (IF t[1] = "readme" THEN Readmes ELSE Licenses) :
                  settled' = (t :> reply) @@ settled
           /\ inflight' = inflight \ {t}
    /\ GatherUnchanged
    /\ UNCHANGED <<pipeVars, tailVars>>

\* fetch_metadata of one name resumes from its gather and returns
MetadataSettle ==
    /\ \E t \in inflight :
           /\ t[1] = "metadata"
           /\ gather(SubFetches(t[2]), inflight)
           /\ settled' = (t :> fetch_metadata(NetOf(t[2]))) @@ settled
           /\ inflight' = inflight \ {t}
    /\ GatherUnchanged
    /\ UNCHANGED <<pipeVars, tailVars>>

\* fetch_metadata_many resumes from its gather and returns the map to run()
EnrichJoin ==
    /\ pc = "enrich_gather"
    /\ gather(MetadataTasks(Len(github_repos)), inflight)
    /\ enrichments' =
           fetch_metadata_many([i \in 1..Len(github_repos) |-> github_repos[i].name],
                               [i \in 1..Len(github_repos) |-> NetOf(i)])
    /\ settled' = <<>>
    /\ pc' = "filter"
    /\ GatherUnchanged
    /\ UNCHANGED <<inflight, github_repos, response, filtered, github_items, tailVars>>

\* HackerNewsSource.fetch up to its gather: the topstories request, then one
\* _fetch_item coroutine per story id
HnStart(Tops) ==
    /\ pc = "hn"
    /\ \E top \in Tops :
           IF top.exc \/ top.status # 200
           THEN \E r \in {HnFetch(top, <<>>, HnLimit)} :
                    /\ all_items' = IF r.raised THEN <<>>
                                    ELSE github_items \o Take(r.result, HnCap)
                    /\ pc' = IF r.raised THEN "aborted_hn" ELSE "save"
                    /\ UNCHANGED <<inflight, settled>>
           ELSE /\ inflight' = inflight \cup ItemTasks(Len(Take(top.body, HnLimit)))
                /\ settled' = (Task("top", 0) :> top)
                /\ pc' = "hn_gather"
                /\ UNCHANGED all_items
    /\ GatherUnchanged
    /\ UNCHANGED <<github_repos, enrichments, response, filtered, github_items,
                   new_items, sent, delivered>>

\* _fetch_item of one story id returns
ItemSettle ==
    /\ \E t \in inflight :
           /\ t[1] = "item"
           /\ \E reply \in DetailReplies(settled[Task("top", 0)].body[t[2]]) :
                  settled' = (t :> reply) @@ settled
           /\ inflight' = inflight \ {t}
    /\ GatherUnchanged
    /\ UNCHANGED <<pipeVars, tailVars>>

\* HackerNewsSource.fetch resumes from its gather and returns to run()
HnJoin ==
    /\ pc = "hn_gather"
    /\ LET top == settled[Task("top", 0)]
           n   == Len(Take(top.body, HnLimit))
       IN  /\ gather(ItemTasks(n), inflight)
           /\ \E r \in {HnFetch(top,
                                 [i \in 1..n |-> ResultOf(Task("item", i),
                                                          Reply(TRUE, 0, None))],
                                 HnLimit)} :
                  all_items' = github_items \o Take(r.result, HnCap)
    /\ settled' = <<>>
    /\ pc' = "save"
    /\ GatherUnchanged
    /\ UNCHANGED <<inflight, github_repos, enrichments, response, filtered,
                   github_items, new_items, sent, delivered>>

GatherPages ==
    { Reply(TRUE, 0, <<>>), Reply(FALSE, 200, <<>>),
      Reply(FALSE, 200, << Article(Some("/o/a"), Some("Python"), "1,234") >>),
      Reply(FALSE, 200, << Article(Some("/o/a"), Some("Python"), "1,234"),
                           Article(Some("/o/b"), None, "") >>) }

GatherReadmes ==
    { [i \in 1..4 |-> Reply(TRUE, 0, "")],
      [i \in 1..4 |-> Reply(FALSE, 200, "# usage")] }

GatherLicenses == { Reply(TRUE, 0, ""), Reply(FALSE, 200, "MIT") }

GatherTops ==
    { Reply(TRUE, 0, <<>>), Reply(FALSE, 503, <<>>), Reply(FALSE, 200, <<>>),
      Reply(FALSE, 200, <<1>>), Reply(FALSE, 200, <<1, 2>>) }

GatherInit ==
    /\ cfg = [supabase_url |-> None, supabase_key |-> None,
              slack_webhook_url |-> Some("https://hooks.slack.test/T"),
              relevance_threshold |-> DefaultThreshold]
    /\ store = <<>>
    /\ clock = 0
    /\ InitHist
    /\ InitPipe

GatherNext ==
    \/ Trigger
    \/ GitHubFetchStep(GatherPages)
    \/ EnrichStart
    \/ SubFetchSettle(GatherReadmes, GatherLicenses)
    \/ MetadataSettle
    \/ EnrichJoin
    \/ FilterStep(SchedResponses)
    \/ HnStart(GatherTops)
    \/ ItemSettle
    \/ HnJoin
    \/ SaveStep
    \/ NotifyStep({Reply(FALSE, 200, "")})

GatherSpec == GatherInit /\ [][GatherNext]_vars

\* C14: a task of the enrichment fan-out is in flight only while run() waits
\* in fetch_metadata_many, a sub-fetch is in flight only while its
\* fetch_metadata waits for it, and a detail fetch is in flight only while
\* run() waits in HackerNewsSource.fetch: no stage starts with a task of an
\* earlier fan-out still in flight, whether the tasks succeeded or failed.
C14_AllCompleteBarrier ==
    \A t \in inflight :
        /\ t[1] \in {"metadata", "readme", "license"} => pc = "enrich_gather"
        /\ t[1] \in {"readme", "license"} => Task("metadata", t[2]) \in inflight
        /\ t[1] = "item" => pc = "hn_gather"

\* C14 witness: two names were enriched, every sub-fetch of the first failed
\* and the license fetch of the second succeeded; the classifier stage is
\* entered with nothing in flight and both entries in the map.
C14_Witness ==
    /\ pc = "filter"
    /\ Len(github_repos) = 2
    /\ inflight = {}
    /\ DOMAIN enrichments = {"o/a", "o/b"}
    /\ enrichments["o/a"].readme = None
    /\ enrichments["o/a"].license = None
    /\ enrichments["o/b"].license = Some("mit")

=============================================================================
